---- MODULE Spec2Model ----
(***************************************************************************)
(* Model of CleanUpMyDownloadsWin.py: a run (browse_files) loads the CSV   *)
(* history, walks the downloads directory, stats every entity, accrues its *)
(* importance against the loaded history, archives or trashes it when it   *)
(* is deprecated, and finally rewrites the CSV history.                    *)
(*                                                                         *)
(* Timestamps are whole days.  The clock (datetime.now()) is read anew at  *)
(* every evaluation of is_deprecated and may advance between two reads.    *)
(* The archive folder and the trash are not modelled beyond the fact that  *)
(* a moved entity leaves the scanned directory; the calls themselves are   *)
(* logged per loop iteration in "calls".  A CSV cell is the text written   *)
(* by csv.writer: either the decimal text of a number or other text.       *)
(* st_birthtime is stored and written back but read by no decision: every  *)
(* entity is given the same birthdate.  The rows of Memory.update reach    *)
(* the file when the with block closes it; the file is empty from the      *)
(* open(..., "w") until then.  Filesystem calls other than stat() succeed. *)
(***************************************************************************)
EXTENDS Integers, Sequences, FiniteSets, TLC

\* ---- program constants -------------------------------------------------
IMPORTANCE_THRESHOLD == 3
TIME_LIMIT_IN_DAYS == 30

\* ---- bounds ------------------------------------------------------------
NumPaths == 2
MaxEarly == 3
MaxLate == 1
MaxFew == 1
NumConcPaths == 1

Paths == 1..NumPaths
ConcPaths == 1..NumConcPaths
Runs == {1}
ConcRuns == {1, 2}
AllRuns == Runs \cup ConcRuns

\* Instants the clock can show: a few consecutive early days, and the days
\* around the end of the retention window of the last early day.
Times == (0..MaxEarly) \cup {TIME_LIMIT_IN_DAYS + MaxEarly + d : d \in 0..MaxLate}

\* Fewer instants: the first early days and the first day on which an entity
\* last accessed on any of them is deprecated.
FewTimes == (0..MaxFew) \cup {TIME_LIMIT_IN_DAYS + MaxFew + 1}

VARIABLES now, fs, csv, pc, last_metadata, entities, entities_metadata,
          calls, wtodo, wbuf

vars == <<now, fs, csv, pc, last_metadata, entities, entities_metadata,
          calls, wtodo, wbuf>>

NotRunning == {"idle", "done", "load_error", "stat_error"}

\* ---- CSV cells ---------------------------------------------------------
\* str(x) of a number, as csv.writer writes it
Str(n) == [kind |-> "num", val |-> n]
\* a cell that float()/int() rejects
Garbage == [kind |-> "text", val |-> 0]
\* float(cell) / int(cell) succeed
Coerces(cell) == cell.kind = "num"
\* float(cell) / int(cell)
Num(cell) == cell.val

\* ---- EntityData --------------------------------------------------------
EntityData(path, birthdate, last_access, importance_level) ==
    [path |-> path, birthdate |-> birthdate, last_access |-> last_access,
     importance_level |-> importance_level]

is_deprecated(last_access, clock) == clock > last_access + TIME_LIMIT_IN_DAYS

\* variant: strict comparison with the threshold
is_important_strict(importance_level) == importance_level > IMPORTANCE_THRESHOLD

is_important(importance_level) == importance_level >= IMPORTANCE_THRESHOLD

\* ---- Memory ------------------------------------------------------------
RowCoerces(row) ==
    /\ Coerces(row.birthdate)
    /\ Coerces(row.last_access)
    /\ Coerces(row.importance_level)

RowData(row) ==
    EntityData(row.path, Num(row.birthdate), Num(row.last_access),
               Num(row.importance_level))

\* rows with the same path overwrite previous entries
LastRow(file, p) ==
    file[CHOOSE i \in 1..Len(file) :
            /\ file[i].path = p
            /\ \A j \in 1..Len(file) : file[j].path = p => j <= i]

\* variant: rows that fail coercion are skipped instead of raising
load_last_metadata_skip(file) ==
    LET good == {i \in 1..Len(file) : RowCoerces(file[i])} IN
      [ok |-> TRUE,
       metadata |-> [p \in {file[i].path : i \in good} |->
                        RowData(file[CHOOSE i \in good :
                                        /\ file[i].path = p
                                        /\ \A j \in good : file[j].path = p => j <= i])]]

load_last_metadata(file) ==
    IF \A i \in 1..Len(file) : RowCoerces(file[i])
    THEN [ok |-> TRUE,
          metadata |-> [p \in {file[i].path : i \in 1..Len(file)} |->
                            RowData(LastRow(file, p))]]
    ELSE [ok |-> FALSE, metadata |-> <<>>]

EncodeRow(e) ==
    [path |-> e.path, birthdate |-> Str(e.birthdate),
     last_access |-> Str(e.last_access),
     importance_level |-> Str(e.importance_level)]

\* variant: the filter of Memory.update is inverted
WriteEntity_inverted(buf, entity, clock) ==
    IF is_deprecated(entity.last_access, clock)
    THEN Append(buf, EncodeRow(entity))
    ELSE buf

\* variant: Memory.update writes every entity it is given
WriteEntity_nofilter(buf, entity, clock) == Append(buf, EncodeRow(entity))

\* one iteration of the loop of Memory.update
WriteEntity(buf, entity, clock) ==
    IF ~ is_deprecated(entity.last_access, clock)
    THEN Append(buf, EncodeRow(entity))
    ELSE buf

\* ---- extract_data, update_data ----------------------------------------
\* variant: a fresh entity starts with importance 1
extract_data_one(p, stat) == EntityData(p, stat.birthdate, stat.last_access, 1)

extract_data(p, stat) == EntityData(p, stat.birthdate, stat.last_access, 0)

\* variant: the increment is applied to the fresh entity's own level
update_data_self(data, metadata) ==
    IF data.path \notin DOMAIN metadata
    THEN data
    ELSE IF data.last_access > metadata[data.path].last_access
         THEN [data EXCEPT !.importance_level = data.importance_level + 1]
         ELSE data

update_data(data, metadata) ==
    IF data.path \notin DOMAIN metadata
    THEN data
    ELSE IF data.last_access > metadata[data.path].last_access
         THEN [data EXCEPT !.importance_level =
                               metadata[data.path].importance_level + 1]
         ELSE data

\* the calls made by one loop iteration of browse_files
Dispatch(entity, clock) ==
    IF is_deprecated(entity.last_access, clock)
    THEN IF is_important(entity.importance_level)
         THEN {"archive_data"}
         ELSE {"delete_data"}
    ELSE {}

\* ---- os.walk -----------------------------------------------------------
RECURSIVE Listing(_)
Listing(S) ==
    IF S = {} THEN <<>>
    ELSE LET p == CHOOSE x \in S : \A y \in S : x <= y
         IN <<p>> \o Listing(S \ {p})

Without(f, p) == [q \in (DOMAIN f) \ {p} |-> f[q]]

With(f, p, v) == [q \in (DOMAIN f) \cup {p} |-> IF q = p THEN v ELSE f[q]]

\* ---- initial state -----------------------------------------------------
Init ==
    /\ now = 0
    /\ fs = <<>>
    /\ csv = <<>>
    /\ pc = [r \in AllRuns |-> "idle"]
    /\ last_metadata = [r \in AllRuns |-> <<>>]
    /\ entities = [r \in AllRuns |-> <<>>]
    /\ entities_metadata = [r \in AllRuns |-> <<>>]
    /\ calls = [r \in AllRuns |-> <<>>]
    /\ wtodo = [r \in AllRuns |-> <<>>]
    /\ wbuf = [r \in AllRuns |-> <<>>]

\* ---- environment -------------------------------------------------------
\* The clock moves to the next instant.  The long gap between the early and
\* the late instants passes between runs: no run lasts a retention window.
Tick(T) ==
    /\ \E t \in T :
          /\ t > now
          /\ \A u \in T : u > now => t <= u
          /\ t > now + 1 => \A r \in AllRuns : pc[r] \in NotRunning
          /\ now' = t
    /\ UNCHANGED <<fs, csv, pc, last_metadata, entities, entities_metadata,
                   calls, wtodo, wbuf>>

\* a download lands in the directory
Create(p) ==
    /\ p \notin DOMAIN fs
    /\ fs' = With(fs, p, [birthdate |-> 0, last_access |-> now])
    /\ UNCHANGED <<now, csv, pc, last_metadata, entities, entities_metadata,
                   calls, wtodo, wbuf>>

\* the user opens an entity: its st_atime moves to the present
Touch(p) ==
    /\ p \in DOMAIN fs
    /\ fs[p].last_access < now
    /\ fs' = [fs EXCEPT ![p].last_access = now]
    /\ UNCHANGED <<now, csv, pc, last_metadata, entities, entities_metadata,
                   calls, wtodo, wbuf>>

\* the user removes an entity by hand
Remove(p) ==
    /\ p \in DOMAIN fs
    /\ fs' = Without(fs, p)
    /\ UNCHANGED <<now, csv, pc, last_metadata, entities, entities_metadata,
                   calls, wtodo, wbuf>>

\* the CSV file is edited by hand: one numeric cell becomes other text
Corrupt(i, field) ==
    /\ i \in 1..Len(csv)
    /\ \A j \in 1..Len(csv) : RowCoerces(csv[j])
    /\ csv' = [csv EXCEPT ![i][field] = Garbage]
    /\ UNCHANGED <<now, fs, pc, last_metadata, entities, entities_metadata,
                   calls, wtodo, wbuf>>

\* ---- browse_files ------------------------------------------------------
\* db = Memory(db_path); entities = next(os.walk(path)) ...
Load(r) ==
    /\ pc[r] \in NotRunning
    /\ LET loaded == load_last_metadata(csv) IN
         /\ pc' = [pc EXCEPT ![r] = IF loaded.ok THEN "scan" ELSE "load_error"]
         /\ last_metadata' = [last_metadata EXCEPT ![r] = loaded.metadata]
         /\ entities' = [entities EXCEPT ![r] =
                            IF loaded.ok THEN Listing(DOMAIN fs) ELSE <<>>]
    /\ entities_metadata' = [entities_metadata EXCEPT ![r] = <<>>]
    /\ calls' = [calls EXCEPT ![r] = <<>>]
    /\ wtodo' = [wtodo EXCEPT ![r] = <<>>]
    /\ wbuf' = [wbuf EXCEPT ![r] = <<>>]
    /\ UNCHANGED <<now, fs, csv>>

\* one iteration of "for entity in entities"
Step(r) ==
    /\ pc[r] = "scan"
    /\ entities[r] # <<>>
    /\ LET p == Head(entities[r]) IN
         /\ p \in DOMAIN fs
         /\ LET entity == update_data(extract_data(p, fs[p]), last_metadata[r])
                ops == Dispatch(entity, now)
            IN /\ fs' = IF ops # {} THEN Without(fs, p) ELSE fs
               /\ entities_metadata' =
                      [entities_metadata EXCEPT ![r] = Append(@, entity)]
               /\ calls' = [calls EXCEPT ![r] =
                               Append(@, [clock |-> now, ops |-> ops])]
    /\ entities' = [entities EXCEPT ![r] = Tail(@)]
    /\ UNCHANGED <<now, csv, pc, last_metadata, wtodo, wbuf>>

\* entity.stat() raises: the entity listed by os.walk is gone
StatFails(r) ==
    /\ pc[r] = "scan"
    /\ entities[r] # <<>>
    /\ Head(entities[r]) \notin DOMAIN fs
    /\ pc' = [pc EXCEPT ![r] = "stat_error"]
    /\ UNCHANGED <<now, fs, csv, last_metadata, entities, entities_metadata,
                   calls, wtodo, wbuf>>

\* Memory.update: open(self.path, "w") truncates the file
WriteOpen(r) ==
    /\ pc[r] = "scan"
    /\ entities[r] = <<>>
    /\ csv' = <<>>
    /\ wtodo' = [wtodo EXCEPT ![r] = entities_metadata[r]]
    /\ wbuf' = [wbuf EXCEPT ![r] = <<>>]
    /\ pc' = [pc EXCEPT ![r] = "write"]
    /\ UNCHANGED <<now, fs, last_metadata, entities, entities_metadata, calls>>

\* Memory.update: one iteration of "for entity in entities"
WriteRow(r) ==
    /\ pc[r] = "write"
    /\ wtodo[r] # <<>>
    /\ wbuf' = [wbuf EXCEPT ![r] = WriteEntity(@, Head(wtodo[r]), now)]
    /\ wtodo' = [wtodo EXCEPT ![r] = Tail(@)]
    /\ UNCHANGED <<now, fs, csv, pc, last_metadata, entities,
                   entities_metadata, calls>>

\* variant: the rows are appended to what the file holds at that moment
WriteClose_append(r) ==
    /\ pc[r] = "write"
    /\ wtodo[r] = <<>>
    /\ csv' = csv \o wbuf[r]
    /\ pc' = [pc EXCEPT ![r] = "done"]
    /\ UNCHANGED <<now, fs, last_metadata, entities, entities_metadata,
                   calls, wtodo, wbuf>>

\* Memory.update: leaving the with block flushes the rows and closes
WriteClose(r) ==
    /\ pc[r] = "write"
    /\ wtodo[r] = <<>>
    /\ csv' = wbuf[r]
    /\ pc' = [pc EXCEPT ![r] = "done"]
    /\ UNCHANGED <<now, fs, last_metadata, entities, entities_metadata,
                   calls, wtodo, wbuf>>

\* the user's activity while the tool is in use
Env ==
    \/ Tick(Times)
    \/ \E p \in Paths : Create(p)
    \/ \E p \in Paths : Touch(p)

\* the same over fewer instants, with entities removed and the CSV file
\* edited by hand
EnvEdit ==
    \/ Tick(FewTimes)
    \/ \E p \in Paths : Create(p)
    \/ \E p \in Paths : Touch(p)
    \/ \E p \in Paths : Remove(p)
    \/ \E i \in 1..NumPaths, f \in {"birthdate", "last_access", "importance_level"} :
          Corrupt(i, f)

\* the user's activity over fewer instants and entities
EnvConc ==
    \/ Tick(FewTimes)
    \/ \E p \in ConcPaths : Create(p)
    \/ \E p \in ConcPaths : Touch(p)

\* one invocation of the script at a time, one after the other
Next ==
    \/ Env
    \/ \E r \in Runs :
          Load(r) \/ Step(r) \/ WriteOpen(r) \/ WriteRow(r) \/ WriteClose(r)

Spec == Init /\ [][Next]_vars

NextEdit ==
    \/ EnvEdit
    \/ \E r \in Runs :
          \/ Load(r) \/ Step(r) \/ StatFails(r)
          \/ WriteOpen(r) \/ WriteRow(r) \/ WriteClose(r)

SpecEdit == Init /\ [][NextEdit]_vars

\* two invocations of the script against the same CSV file and directory
NextConc ==
    \/ EnvConc
    \/ \E r \in ConcRuns :
          \/ Load(r) \/ Step(r) \/ StatFails(r)
          \/ WriteOpen(r) \/ WriteRow(r) \/ WriteClose(r)

SpecConc == Init /\ [][NextConc]_vars

\* ======================================================================
\* Properties
\* ======================================================================
\* staleness and value as the design states them
Stale(last_access, clock) == clock > last_access + TIME_LIMIT_IN_DAYS

Valuable(importance) == importance >= IMPORTANCE_THRESHOLD

\* the loop iterations run r has completed
Processed(r) == 1..Len(entities_metadata[r])

HasPrevious(r, i) == entities_metadata[r][i].path \in DOMAIN last_metadata[r]

Previous(r, i) == last_metadata[r][entities_metadata[r][i].path]

RowPaths(file) == {file[i].path : i \in 1..Len(file)}

\* the row is the text of the Record
RowOf(row, e) ==
    /\ row.path = e.path
    /\ row.birthdate = [kind |-> "num", val |-> e.birthdate]
    /\ row.last_access = [kind |-> "num", val |-> e.last_access]
    /\ row.importance_level = [kind |-> "num", val |-> e.importance_level]

Malformed(file) ==
    \E i \in 1..Len(file) :
        \/ file[i].birthdate.kind # "num"
        \/ file[i].last_access.kind # "num"
        \/ file[i].importance_level.kind # "num"

\* the entities run r left in place
Retained(r) == {entities_metadata[r][i].path : i \in {j \in Processed(r) : calls[r][j].ops = {}}}

\* C1: for an entity that has a Record in the loaded snapshot, the importance
\* the run computes is the previous importance or the previous importance
\* plus one (it never decreases and never jumps by more than one).
C1_ImportanceStep ==
    \A r \in Runs : \A i \in Processed(r) :
        HasPrevious(r, i) =>
            entities_metadata[r][i].importance_level \in
                {Previous(r, i).importance_level, Previous(r, i).importance_level + 1}

\* C2: an entity whose previous Record has importance >= the threshold, whose
\* last access is unchanged since that Record and which is now deprecated
\* keeps its importance and is archived, never soft-deleted.
C2_NeglectedValuableArchived ==
    \A r \in Runs : \A i \in Processed(r) :
        ( /\ HasPrevious(r, i)
          /\ Valuable(Previous(r, i).importance_level)
          /\ entities_metadata[r][i].last_access = Previous(r, i).last_access
          /\ Stale(entities_metadata[r][i].last_access, calls[r][i].clock) )
        => /\ entities_metadata[r][i].importance_level = Previous(r, i).importance_level
           /\ calls[r][i].ops = {"archive_data"}

C6_Accrue ==
    \A r \in Runs : \A i \in Processed(r) :
        ( /\ HasPrevious(r, i)
          /\ entities_metadata[r][i].last_access > Previous(r, i).last_access )
        => /\ entities_metadata[r][i].importance_level =
                  Previous(r, i).importance_level + 1
           /\ ~ Stale(entities_metadata[r][i].last_access, calls[r][i].clock)
                  => /\ calls[r][i].ops = {}
                     /\ entities_metadata[r][i].path \in DOMAIN fs

C6_Witness ==
    \E r \in Runs : \E i \in Processed(r) :
        /\ HasPrevious(r, i)
        /\ Previous(r, i).importance_level = 2
        /\ entities_metadata[r][i].last_access > Previous(r, i).last_access
        /\ entities_metadata[r][i].importance_level = 3
        /\ calls[r][i].ops = {}

\* C7: if a run observes the same last access as the Record the previous run
\* persisted, the importance it computes equals the previous importance.
C7_NonAccessIdempotent ==
    \A r \in Runs : \A i \in Processed(r) :
        ( /\ HasPrevious(r, i)
          /\ entities_metadata[r][i].last_access = Previous(r, i).last_access )
        => entities_metadata[r][i].importance_level = Previous(r, i).importance_level

\* C8: an entity whose identity is absent from the loaded snapshot ends the
\* run with importance 0, is never archived, and is soft-deleted if stale.
C8_ColdStart ==
    \A r \in Runs : \A i \in Processed(r) :
        ~ HasPrevious(r, i) =>
            /\ entities_metadata[r][i].importance_level = 0
            /\ calls[r][i].ops # {"archive_data"}
            /\ Stale(entities_metadata[r][i].last_access, calls[r][i].clock)
                  => calls[r][i].ops = {"delete_data"}

C8_Witness ==
    \E r \in Runs : \E i \in Processed(r) :
        /\ ~ HasPrevious(r, i)
        /\ Stale(entities_metadata[r][i].last_access, calls[r][i].clock)
        /\ calls[r][i].ops = {"delete_data"}
        /\ entities_metadata[r][i].path \notin DOMAIN fs

\* C9: with two runs against the same store nothing orders them: a run that
\* finishes its write replaces the whole snapshot by its own results, whatever
\* the other run persisted since this run loaded (the witness is the
\* interleaving in which the other run's accrual is lost).
C9_LastWriterOnly ==
    [][\A r \in ConcRuns :
        (pc[r] = "write" /\ pc'[r] = "done") =>
            /\ Len(csv') <= Len(entities_metadata[r])
            /\ \A k \in 1..Len(csv') : \E i \in Processed(r) :
                  RowOf(csv'[k], entities_metadata[r][i])]_vars

C9_Witness ==
    \E a, b \in ConcRuns : \E p \in ConcPaths :
        /\ a # b
        /\ pc[a] = "done" /\ pc[b] = "done"
        /\ last_metadata[a] = last_metadata[b]
        /\ p \in DOMAIN last_metadata[a]
        /\ \E i \in Processed(b) :
              /\ entities_metadata[b][i].path = p
              /\ entities_metadata[b][i].last_access > last_metadata[b][p].last_access
              /\ entities_metadata[b][i].importance_level =
                     last_metadata[b][p].importance_level + 1
              /\ \E k \in 1..Len(wbuf[b]) : RowOf(wbuf[b][k], entities_metadata[b][i])
              /\ \A k \in 1..Len(csv) : ~ RowOf(csv[k], entities_metadata[b][i])
        /\ \E i \in Processed(a) : \E k \in 1..Len(csv) :
              /\ entities_metadata[a][i].path = p
              /\ RowOf(csv[k], entities_metadata[a][i])
              /\ entities_metadata[a][i].last_access = last_metadata[a][p].last_access

\* C10: when the persisted snapshot holds a row that fails coercion, a run
\* that starts fails at load: no mapping is used, nothing is listed, archived
\* or soft-deleted, the store is not rewritten, and the run goes no further.
C10_MalformedRowFatal ==
    [][\A r \in Runs :
        ( /\ pc[r] \in {"idle", "done", "load_error", "stat_error"}
          /\ Malformed(csv)
          /\ <<pc[r], last_metadata[r], entities[r], entities_metadata[r], calls[r]>>' #
                 <<pc[r], last_metadata[r], entities[r], entities_metadata[r], calls[r]>> )
        => /\ pc'[r] = "load_error"
           /\ last_metadata'[r] = <<>>
           /\ entities'[r] = <<>>
           /\ entities_metadata'[r] = <<>>
           /\ calls'[r] = <<>>
           /\ csv' = csv
           /\ fs' = fs]_vars

C10_Witness ==
    \E r \in Runs : \E p, q \in DOMAIN fs :
        /\ pc[r] = "load_error"
        /\ Malformed(csv)
        /\ Len(csv) = 2
        /\ \E k \in 1..Len(csv) :
              /\ csv[k].birthdate.kind = "num"
              /\ csv[k].last_access.kind = "num"
              /\ csv[k].importance_level.kind = "num"
        /\ Stale(fs[p].last_access, now)
        /\ calls[r] = <<>>
====
